---- MODULE Spec2Model ----
(***************************************************************************)
(* Model of src/cmd/flux-account-create-elastic-logs.py: one run of main() *)
(* fetches the inactive jobs of a Flux instance (fetch_new_jobs), maps     *)
(* each one to a record of the common schema (create_job_dicts) and prints *)
(* the records.                                                            *)
(*                                                                         *)
(* Python values are tagged records, so that None, numbers, strings and    *)
(* dicts can share one container.  A float [num, den, exp10, ulps] is the  *)
(* double nearest to num/den * 10^exp10, moved by `ulps` units in its last *)
(* place.  Timestamps are multiples of 1/8 s (den = 8), which are doubles, *)
(* so the subtractions of the code are exact and round(x, 1) meets true    *)
(* ties (x.25, x.75), resolved half-to-even; its result is the double      *)
(* nearest to a number of tenths (den = 10).                               *)
(***************************************************************************)
EXTENDS Integers, Sequences, FiniteSets, TLC

VARIABLES
    inactive,          \* the instance's inactive jobs, oldest first, each with its KVS entry
    checkpoint,        \* FLUX_TIMESTAMP_FILE: whether it exists, and its text
    run,               \* for each run of main() that has ended, its observable outcome
    queue_timelimits,  \* for each run, the module-level dict of its process
    prev,              \* the timestamp and the output of the run without --since that ended last
    jobs,              \* the argument of the call of create_job_dicts
    ret,               \* what that call returned or raised
    pc,                \* for each run, the call it waits in
    frame              \* for each run under way, its arguments and locals

vars == <<inactive, checkpoint, run, prev, queue_timelimits, jobs, ret, pc, frame>>

(***************************** bounds **************************************)
\* the longest list of jobs handed to create_job_dicts in SpecMap
MaxJobs == 3
\* timestamps of the mapped jobs range over 0..MaxTick eighths of a second
MaxTick == 3
\* the most inactive jobs the instance holds in Spec
MaxInactive == 2

(***************************** Python values *******************************)
None == [t |-> "None"]
PyInt(n) == [t |-> "int", v |-> n]
PyStr(s) == [t |-> "str", v |-> s]
PyBool(b) == [t |-> "bool", v |-> b]
PyFloat(n, d) == [t |-> "float", num |-> n, den |-> d, exp10 |-> 0, ulps |-> 0]
PyDict(f) == [t |-> "dict", v |-> f]
EmptyDict == PyDict([k \in {} |-> None])

IsNone(x) == x.t = "None"
IsNumber(x) == x.t \in {"int", "float"}
NumOf(x) == IF x.t = "int" THEN x.v ELSE x.num
DenOf(x) == IF x.t = "int" THEN 1 ELSE x.den

\* d.get(k, default) on a dict held as a function
Get(d, k, default) == IF k \in DOMAIN d THEN d[k] ELSE default
\* d[k] = val
Put(d, k, val) == (k :> val) @@ d
\* a timestamp of k eighths of a second
Tick(k) == PyFloat(k, 8)

\* x - y on numbers with one denominator
Sub(x, y) == PyFloat(NumOf(x) - NumOf(y), DenOf(x))

Abs(n) == IF n < 0 THEN 0 - n ELSE n
Sign(n) == IF n < 0 THEN 0 - 1 ELSE 1

\* the integer nearest to n/d (d > 0), ties to the even one
RoundHalfEvenDiv(n, d) ==
    LET q == Abs(n) \div d
        r == Abs(n) % d
        up == (2 * r > d) \/ (2 * r = d /\ q % 2 = 1)
    IN  Sign(n) * (IF up THEN q + 1 ELSE q)

\* round(x, 1): a float with one decimal, ties to even
Round1(x) == PyFloat(RoundHalfEvenDiv(10 * NumOf(x), DenOf(x)), 10)

RECURSIVE Log2Floor(_, _)
\* the greatest g with 2^g <= a/b, for 0 < a and 0 < b <= 10
Log2Floor(a, b) ==
    IF a < b THEN Log2Floor(2 * a, b) - 1
    ELSE IF a >= 2 * b THEN Log2Floor(a \div 2, b) + 1
    ELSE 0

RECURSIVE Pow2(_)
Pow2(n) == IF n = 0 THEN 1 ELSE 2 * Pow2(n - 1)

\* 2^e modulo 10, for e >= 1
Pow2Mod10(e) == <<6, 2, 4, 8>>[(e % 4) + 1]

\* The double nearest to m/10 (m > 0) is M / 2^e with e = 52 - Log2Floor(m, 10)
\* and M the integer nearest to m * 2^e / 10.  TenthError(m) is 10 * M - m * 2^e:
\* the double is m/10 + TenthError(m) / (10 * 2^e).
TenthResidue(m) == ((m % 10) * Pow2Mod10(52 - Log2Floor(m, 10))) % 10
TenthError(m) == IF TenthResidue(m) < 5 THEN 0 - TenthResidue(m) ELSE 10 - TenthResidue(m)

\* the exponent of the factor 10**9 of line 247
NanoExponent == 9

RECURSIVE NanoSplitFrom(_, _, _)
\* (q, r) doubled g times, the remainder kept below 10^8
NanoSplitFrom(g, q, r) ==
    IF g = 0 THEN [q |-> q, r |-> r]
    ELSE NanoSplitFrom(g - 1, 2 * q + (2 * r) \div 100000000, (2 * r) % 100000000)
\* 2^(g + 30) = q * 10^8 + r with 0 <= r < 10^8, for g >= 0
NanoSplit(g) == NanoSplitFrom(g, 10, 73741824)

\* m * 10^8 < 2^(g + 30), for g = Log2Floor(m, 10)
BelowNanoBinade(m, g) ==
    IF g <= 0 THEN m * Pow2(0 - g) * 100000000 < 1073741824
    ELSE m < NanoSplit(g).q \/ (m = NanoSplit(g).q /\ NanoSplit(g).r > 0)

\* The exact product of the double nearest to m/10 with 10^9 is
\*     m * 10^8 + TenthError(m) * 10^8 / 2^e,
\* and m * 10^8 is a double whose unit in the last place is 2^(f - 52), with
\* f = Log2Floor(m, 10) + 29 when m * 10^8 < 2^(Log2Floor(m, 10) + 30) and one
\* more otherwise.  The double nearest to the product lies ProductUlps(m) of
\* these units from m * 10^8.
ProductShift(m) == IF BelowNanoBinade(m, Log2Floor(m, 10)) THEN 29 ELSE 30
ProductUlps(m) ==
    IF m = 0 THEN 0
    ELSE Sign(m) * RoundHalfEvenDiv(TenthError(Abs(m)) * 100000000,
                                    Pow2(ProductShift(Abs(m))))

\* x * 10**9 in double arithmetic, for x a number of tenths
TimesNanos(x) == [x EXCEPT !.exp10 = @ + NanoExponent, !.ulps = ProductUlps(x.num)]

\* a float that is infinite or not a number
IsSpecial(x) == "special" \in DOMAIN x
ExpOf(x) == IF x.t = "int" THEN 0 ELSE x.exp10
MinExp(x, y) == IF ExpOf(x) < ExpOf(y) THEN ExpOf(x) ELSE ExpOf(y)
RECURSIVE Pow10(_)
Pow10(n) == IF n = 0 THEN 1 ELSE 10 * Pow10(n - 1)

SpecialOf(x) == IF IsSpecial(x) THEN x.special ELSE "finite"

\* x > y on numbers; nan compares with nothing
NumGreater(x, y) ==
    IF IsSpecial(x) \/ IsSpecial(y)
    THEN /\ SpecialOf(x) # "nan" /\ SpecialOf(y) # "nan"
         /\ \/ SpecialOf(x) = "inf" /\ SpecialOf(y) # "inf"
            \/ SpecialOf(y) = "-inf" /\ SpecialOf(x) # "-inf"
    ELSE NumOf(x) * DenOf(y) * Pow10(ExpOf(x) - MinExp(x, y))
           > NumOf(y) * DenOf(x) * Pow10(ExpOf(y) - MinExp(x, y))

(***************************** text ****************************************)
Digits == <<"0", "1", "2", "3", "4", "5", "6", "7", "8", "9">>
DigitChar(d) == Digits[d + 1]

RECURSIVE NatToStr(_)
NatToStr(n) == IF n < 10 THEN DigitChar(n) ELSE NatToStr(n \div 10) \o DigitChar(n % 10)

\* str(n) of an int
IntToStr(n) == IF n < 0 THEN "-" \o NatToStr(0 - n) ELSE NatToStr(n)

RECURSIVE ZeroPad(_, _)
\* n in decimal, padded with zeros to at least w digits
ZeroPad(n, w) == IF w <= 1 THEN NatToStr(n)
                 ELSE ZeroPad(n \div 10, w - 1) \o DigitChar(n % 10)

\* the civil date of day z of the Unix epoch (z >= 0), proleptic Gregorian
CivilFromDays(z) ==
    LET s == z + 719468
        era == s \div 146097
        doe == s - era * 146097
        yoe == (doe - doe \div 1460 + doe \div 36524 - doe \div 146096) \div 365
        doy == doe - (365 * yoe + yoe \div 4 - yoe \div 100)
        mp == (5 * doy + 2) \div 153
        d == doy - (153 * mp + 2) \div 5 + 1
        m == IF mp < 10 THEN mp + 3 ELSE mp - 9
        y == yoe + era * 400 + (IF m <= 2 THEN 1 ELSE 0)
    IN  [year |-> y, month |-> m, day |-> d]

\* datetime.fromtimestamp(x, tz=utc).isoformat() of a timestamp x >= 0
IsoFormat(x) ==
    LET secs == NumOf(x) \div DenOf(x)
        micro == RoundHalfEvenDiv((NumOf(x) % DenOf(x)) * 1000000, DenOf(x))
        date == CivilFromDays(secs \div 86400)
        sod == secs % 86400
    IN  PyStr(ZeroPad(date.year, 4) \o "-" \o ZeroPad(date.month, 2) \o "-"
              \o ZeroPad(date.day, 2) \o "T" \o ZeroPad(sod \div 3600, 2) \o ":"
              \o ZeroPad((sod % 3600) \div 60, 2) \o ":" \o ZeroPad(sod % 60, 2)
              \o (IF micro = 0 THEN "" ELSE "." \o ZeroPad(micro, 6))
              \o "+00:00")

(***************************** identity database ***************************)
\* /etc/passwd and /etc/group of the host: two known users, one of them in
\* a group the group database does not list
PasswdDb == [u \in {1000, 1001} |->
                IF u = 1000 THEN [pw_name |-> "alice", pw_gid |-> 100]
                            ELSE [pw_name |-> "bob", pw_gid |-> 200]]
GroupDb == [g \in {100} |-> [gr_name |-> "users"]]

\* pwd.getpwuid(uid) raises KeyError, ValueError or TypeError
GetpwuidRaises(uid) == ~(uid.t = "int" /\ uid.v \in DOMAIN PasswdDb)
\* grp.getgrgid(gid) raises KeyError, ValueError or TypeError
GetgrgidRaises(gid) == ~(gid.t = "int" /\ gid.v \in DOMAIN GroupDb)

\* str(x) of the values a userid takes
ToStr(x) == IF x.t = "int" THEN IntToStr(x.v) ELSE IF x.t = "str" THEN x.v ELSE "None"

get_username(uid) ==
    IF GetpwuidRaises(uid) THEN PyStr(ToStr(uid)) ELSE PyStr(PasswdDb[uid.v].pw_name)

\* faulty variant: the fallback of get_gid is None
get_gid_none(uid) ==
    IF GetpwuidRaises(uid) THEN None ELSE PyInt(PasswdDb[uid.v].pw_gid)
get_gid(uid) ==
    IF GetpwuidRaises(uid) THEN PyStr("") ELSE PyInt(PasswdDb[uid.v].pw_gid)

get_groupname(gid) ==
    IF GetgrgidRaises(gid) THEN PyStr("") ELSE PyStr(GroupDb[gid.v].gr_name)

(***************************** outcome table *******************************)
OUTCOME_CONVERSION ==
    [c \in {1, 2, 4, 8} |->
        IF c = 1 THEN "COMPLETED" ELSE IF c = 2 THEN "FAILED"
        ELSE IF c = 4 THEN "CANCELLED" ELSE "TIMEOUT"]

\* OUTCOME_CONVERSION[code] raises KeyError
OutcomeRaises(code) == ~(code.t = "int" /\ code.v \in DOMAIN OUTCOME_CONVERSION)
\* faulty variant: the table read one entry off (FAILED and CANCELLED exchanged)
OutcomeOfExchanged(code) ==
    PyStr(OUTCOME_CONVERSION[IF code.v = 2 THEN 4 ELSE IF code.v = 4 THEN 2 ELSE code.v])
OutcomeOf(code) == PyStr(OUTCOME_CONVERSION[code.v])

(***************************** create_job_dicts ****************************)
\* job.get(k)
JobGet(job, k) == Get(job, k, None)

\* lines 174-195: the keys of rec["job"] that are assigned job.get(raw key)
JobCopies ==
    { <<"id", "id">>, <<"name", "name">>, <<"priority", "priority">>,
      <<"state", "state">>, <<"bank", "bank">>, <<"queue", "queue">>,
      <<"project", "project">>, <<"jobspec", "jobspec">>,
      <<"eventlog", "eventlog">>, <<"requested_duration", "duration">>,
      <<"cwd", "cwd">>, <<"urgency", "urgency">>, <<"success", "success">>,
      <<"exit_code", "waitstatus">>, <<"t_submit", "t_submit">>,
      <<"t_run", "t_run">>, <<"t_inactive", "t_inactive">>,
      <<"t_cleanup", "t_cleanup">> }
RawKeyOf(k) == (CHOOSE p \in JobCopies : p[1] = k)[2]

\* faulty variant: the exit status read from a key the job does not have
CopyJobFieldsWrongKey(job) ==
    LET copied == [k \in {p[1] : p \in JobCopies} |->
                     IF k = "exit_code" THEN JobGet(job, "exit_code") ELSE JobGet(job, RawKeyOf(k))]
        node == PyDict([list |-> JobGet(job, "nodelist"), count |-> JobGet(job, "nnodes")])
        task == PyDict([count |-> JobGet(job, "ntasks")])
    IN  Put(Put(Put(copied, "node", node), "task", task), "proc", EmptyDict)
\* lines 160-163, 171-195: rec["job"] after the unconditional assignments
CopyJobFields(job) ==
    LET copied == [k \in {p[1] : p \in JobCopies} |-> JobGet(job, RawKeyOf(k))]
        node == PyDict([list |-> JobGet(job, "nodelist"), count |-> JobGet(job, "nnodes")])
        task == PyDict([count |-> JobGet(job, "ntasks")])
    IN  Put(Put(Put(copied, "node", node), "task", task), "proc", EmptyDict)

\* faulty variant: the eligible time taken to be the start of the run
EligibleTimeIsRun(job) == job["t_run"]
\* line 235: the timestamp of when the job first became eligible
EligibleTime(job) == Sub(job["t_run"], Sub(job["t_run"], job["t_depend"]))

\* faulty variant: the difference left unrounded
DurationSecondsUnrounded(job) == Sub(job["t_inactive"], job["t_run"])
\* lines 244-246
DurationSeconds(job) == Round1(Sub(job["t_inactive"], job["t_run"]))
\* line 247
DurationNanos(seconds) == TimesNanos(seconds)

\* d[k] = val under the condition c, as in `if c: d[k] = val`
PutIf(c, d, k, val) == IF c THEN Put(d, k, val) ELSE d

\* lines 253-256: the exception fields are wanted
ExceptionOccurred(job) ==
    JobGet(job, "exception_occurred").t = "bool" /\ JobGet(job, "exception_occurred").v

\* lines 201-205, 213-218, 227-240, 249-263: the conditional keys of rec["job"],
\* assigned in the order of the code
DeriveJobFields(job, j0, qtl) ==
    Put(
     PutIf(ExceptionOccurred(job) /\ ~IsNone(JobGet(job, "exception_note")),
      PutIf(ExceptionOccurred(job) /\ ~IsNone(JobGet(job, "exception_type")),
       PutIf(~IsNone(JobGet(job, "nnodes")) /\ ~IsNone(JobGet(job, "ntasks")),
        PutIf(~IsNone(JobGet(job, "t_depend")) /\ ~IsNone(JobGet(job, "t_run")),
         PutIf(~IsNone(JobGet(job, "t_depend")) /\ ~IsNone(JobGet(job, "t_run")),
          PutIf(~IsNone(JobGet(job, "expiration")),
           PutIf(~IsNone(JobGet(job, "t_submit")),
            PutIf(~IsNone(JobGet(job, "t_submit")),
             PutIf(~IsNone(j0["queue"]),
                   j0, "queue_maxtimelimit", Get(qtl, j0["queue"].v, PyStr("UNKNOWN"))),
             "submittime_epoch", job["t_submit"]),
            "submittime", IsoFormat(job["t_submit"])),
           "timelimit", IsoFormat(job["expiration"])),
          "eligibletime", IsoFormat(EligibleTime(job))),
         "queue_time", Round1(Sub(job["t_run"], EligibleTime(job)))),
        "proc", PyDict([count |-> PyInt(job["nnodes"].v * job["ntasks"].v)])),
       "exception_type", job["exception_type"]),
      "exception_note", job["exception_note"]),
     "scheduler", PyStr("flux"))

\* lines 159, 167, 197-199, 219-226, 242-247: rec["event"]; the caller has
\* checked that the outcome lookup does not raise
EventFields(job) ==
    PutIf(~IsNone(JobGet(job, "t_inactive")) /\ ~IsNone(JobGet(job, "t_run")),
     PutIf(~IsNone(JobGet(job, "t_inactive")) /\ ~IsNone(JobGet(job, "t_run")),
      PutIf(~IsNone(JobGet(job, "t_inactive")),
       PutIf(~IsNone(JobGet(job, "t_run")),
        PutIf(~IsNone(JobGet(job, "result")),
              [dataset |-> PyStr("flux.joblog")], "outcome", OutcomeOf(job["result"])),
        "start", IsoFormat(job["t_run"])),
       "end", IsoFormat(job["t_inactive"])),
      "duration_seconds", DurationSeconds(job)),
     "duration", DurationNanos(DurationSeconds(job)))

\* lines 164-165, 175, 207-211: rec["user"] and rec["group"]
UserFields(job) ==
    IF ~IsNone(JobGet(job, "userid"))
    THEN [id |-> job["userid"], name |-> get_username(job["userid"])]
    ELSE [id |-> JobGet(job, "userid")]

GroupFields(job) ==
    IF ~IsNone(JobGet(job, "userid"))
    THEN [id |-> get_gid(job["userid"]), name |-> get_groupname(get_gid(job["userid"]))]
    ELSE [k \in {} |-> None]

\* line 199 raises KeyError for this job
RecordRaises(job) == ~IsNone(JobGet(job, "result")) /\ OutcomeRaises(job["result"])

\* lines 156-265: the record of one job
MakeRecord(job, qtl) ==
    PyDict([event |-> PyDict(EventFields(job)),
            job |-> PyDict(DeriveJobFields(job, CopyJobFields(job), qtl)),
            user |-> PyDict(UserFields(job)),
            group |-> PyDict(GroupFields(job)),
            schema |-> PyDict([version_number |-> PyFloat(22, 10)])])

\* line 272: the sort key of a record
SortKey(rec) == Get(rec.v["job"].v, "submittime_epoch", PyStr("0.0"))

\* a < b is defined: two numbers, or two strings
Comparable(a, b) == (IsNumber(a) /\ IsNumber(b)) \/ (a.t = "str" /\ b.t = "str")
\* a < b, for comparable keys; the string keys are all "0.0"
KeyLess(a, b) == IsNumber(a) /\ IsNumber(b) /\ NumGreater(b, a)

\* sorted() compares across the two kinds of key and raises TypeError
SortRaises(recs) ==
    \E i, k \in 1..Len(recs) : ~Comparable(SortKey(recs[i]), SortKey(recs[k]))

\* r put into the sorted list s behind every element that is not greater
InsertSorted(s, r) ==
    LET before == {i \in 1..Len(s) : ~KeyLess(SortKey(r), SortKey(s[i]))}
        n == IF before = {} THEN 0 ELSE CHOOSE i \in before : \A k \in before : k <= i
    IN  SubSeq(s, 1, n) \o <<r>> \o SubSeq(s, n + 1, Len(s))

RECURSIVE StableSort(_)
\* lines 270-273: sorted(job_dicts, key=...), a stable sort
StableSort(recs) ==
    IF recs = <<>> THEN <<>>
    ELSE InsertSorted(StableSort(SubSeq(recs, 1, Len(recs) - 1)), recs[Len(recs)])

\* lines 267-274: the sorted list, or the TypeError of the comparison
SortRecords(job_dicts) ==
    IF SortRaises(job_dicts)
    THEN [raised |-> "TypeError", value |-> <<>>]
    ELSE [raised |-> "none", value |-> StableSort(job_dicts)]

\* lines 143-274: what create_job_dicts(jobs) returns, or the exception it raises
create_job_dicts(js, qtl) ==
    IF \E i \in 1..Len(js) : RecordRaises(js[i])
    THEN [raised |-> "KeyError", value |-> <<>>]
    ELSE SortRecords([i \in 1..Len(js) |-> MakeRecord(js[i], qtl)])

(***************************** the checkpoint file *************************)
\* A text is the sequence of the code points of the str that fp.read() returns.

\* the code points str.strip() removes: those str.isspace() holds for
Whitespace ==
    (9..13) \cup (28..32) \cup {133, 160, 5760} \cup (8192..8202)
    \cup {8232, 8233, 8239, 8287, 12288}

RECURSIVE LStripOf(_, _)
\* cs without the code points of S it begins with
LStripOf(cs, S) == IF cs # <<>> /\ cs[1] \in S THEN LStripOf(Tail(cs), S) ELSE cs
RECURSIVE RStripOf(_, _)
\* cs without the code points of S it ends with
RStripOf(cs, S) == IF cs # <<>> /\ cs[Len(cs)] \in S
                   THEN RStripOf(SubSeq(cs, 1, Len(cs) - 1), S) ELSE cs
LStrip(cs) == LStripOf(cs, Whitespace)
RStrip(cs) == RStripOf(cs, Whitespace)
\* str.strip()
Strip(cs) == RStrip(LStrip(cs))

\* the code points of the digit zero of every decimal script (category Nd);
\* the nine that follow each are its digits 1 to 9
DigitZeros ==
    {48, 1632, 1776, 1984, 2406, 2534, 2662, 2790, 2918, 3046, 3174, 3302, 3430,
     3558, 3664, 3792, 3872, 4160, 4240, 6112, 6160, 6470, 6608, 6784, 6800, 6992,
     7088, 7232, 7248, 42528, 43216, 43264, 43472, 43504, 43600, 44016, 65296,
     66720, 68912, 69734, 69872, 69942, 70096, 70384, 70736, 70864, 71248, 71360,
     71472, 71904, 72016, 72784, 73040, 73120, 92768, 92864, 93008, 120782,
     120792, 120802, 120812, 120822, 123200, 123632, 125264, 130032}
IsDecimal(c) == \E z \in DigitZeros : z <= c /\ c <= z + 9
DecimalValue(c) == c - (CHOOSE z \in DigitZeros : z <= c /\ c <= z + 9)

\* float() reads a str that is not all ASCII through an ASCII form: a code
\* point below 127 stays, white space becomes a blank, a decimal digit of any
\* script its ASCII digit, and any other code point a question mark
ToAscii(c) ==
    IF c < 127 THEN c
    ELSE IF c \in Whitespace THEN 32
    ELSE IF IsDecimal(c) THEN 48 + DecimalValue(c)
    ELSE 63
\* the code points the ASCII form has no character for
Unconvertible(c) == c >= 127 /\ c \notin Whitespace /\ ~IsDecimal(c)
\* the first position of cs that holds such a code point, Len(cs) if none
LastConverted(cs) ==
    IF \E i \in 1..Len(cs) : Unconvertible(cs[i])
    THEN CHOOSE i \in 1..Len(cs) :
             Unconvertible(cs[i]) /\ \A k \in 1..(i - 1) : ~Unconvertible(cs[k])
    ELSE Len(cs)
\* the text float() parses: an ASCII str as it is, any other in its ASCII
\* form, which ends at the first question mark
TransformDecimalAndSpaceToASCII(cs) ==
    IF \A i \in 1..Len(cs) : cs[i] < 128 THEN cs
    ELSE [i \in 1..LastConverted(cs) |-> ToAscii(cs[i])]

\* the white space float() drops around the literal: the ASCII characters
\* tab, line feed, vertical tab, form feed, carriage return and blank
AsciiWhitespace == (9..13) \cup {32}

\* the lower-case form of an ASCII letter
Lower(c) == IF 65 <= c /\ c <= 90 THEN c + 32 ELSE c

IsDigit(c) == 48 <= c /\ c <= 57
DigitValue(c) == c - 48

\* digits grouped by single underscores, each underscore between two digits
IsDigitPart(cs) ==
    /\ cs # <<>>
    /\ \A i \in 1..Len(cs) :
         \/ IsDigit(cs[i])
         \/ cs[i] = 95 /\ 1 < i /\ i < Len(cs) /\ IsDigit(cs[i - 1]) /\ IsDigit(cs[i + 1])

RECURSIVE DigitsValue(_)
\* the number a digit part writes, its underscores dropped
DigitsValue(cs) ==
    IF cs = <<>> THEN 0
    ELSE IF cs[Len(cs)] = 95 THEN DigitsValue(SubSeq(cs, 1, Len(cs) - 1))
    ELSE 10 * DigitsValue(SubSeq(cs, 1, Len(cs) - 1)) + DigitValue(cs[Len(cs)])
\* the number of digits of a digit part
DigitCount(cs) == Cardinality({i \in 1..Len(cs) : IsDigit(cs[i])})

\* the first position of cs that holds a code point of S, Len(cs) + 1 if none
FirstOf(cs, S) ==
    IF \E i \in 1..Len(cs) : cs[i] \in S
    THEN CHOOSE i \in 1..Len(cs) : cs[i] \in S /\ \A k \in 1..(i - 1) : cs[k] \notin S
    ELSE Len(cs) + 1
Before(cs, i) == SubSeq(cs, 1, i - 1)
After(cs, i) == SubSeq(cs, i + 1, Len(cs))

IsSigned(cs) == cs # <<>> /\ cs[1] \in {43, 45}
Unsigned(cs) == IF IsSigned(cs) THEN Tail(cs) ELSE cs
SignOf(cs) == IF cs # <<>> /\ cs[1] = 45 THEN 0 - 1 ELSE 1

\* digitpart [. [digitpart]]  or  . digitpart
IsMantissa(cs) ==
    /\ IsDigitPart(Before(cs, FirstOf(cs, {46}))) \/ Before(cs, FirstOf(cs, {46})) = <<>>
    /\ IsDigitPart(After(cs, FirstOf(cs, {46}))) \/ After(cs, FirstOf(cs, {46})) = <<>>
    /\ \E i \in 1..Len(cs) : IsDigit(cs[i])
\* e [sign] digitpart, or nothing
IsExponent(cs) == cs = <<>> \/ (cs[1] \in {101, 69} /\ IsDigitPart(Unsigned(Tail(cs))))
ExponentValue(cs) ==
    IF cs = <<>> THEN 0 ELSE SignOf(Tail(cs)) * DigitsValue(Unsigned(Tail(cs)))

\* the texts of infinity and of not-a-number, in lower case
InfTexts == {<<105, 110, 102>>, <<105, 110, 102, 105, 110, 105, 116, 121>>}
NanTexts == {<<110, 97, 110>>}
Inf(sgn) == [t |-> "float", special |-> IF sgn < 0 THEN "-inf" ELSE "inf"]
NaN == [t |-> "float", special |-> "nan"]

\* the number written by the mantissa m and the exponent e, with the sign sgn
Literal(sgn, m, e) ==
    [t |-> "float",
     num |-> sgn * DigitsValue(Before(m, FirstOf(m, {46})) \o After(m, FirstOf(m, {46}))),
     den |-> Pow10(DigitCount(After(m, FirstOf(m, {46})))),
     exp10 |-> ExponentValue(e), ulps |-> 0]

\* float() of a text without a sign, in its ASCII form and stripped
ParseUnsigned(sgn, b) ==
    IF [i \in 1..Len(b) |-> Lower(b[i])] \in InfTexts
    THEN [raised |-> "none", value |-> Inf(sgn)]
    ELSE IF [i \in 1..Len(b) |-> Lower(b[i])] \in NanTexts
    THEN [raised |-> "none", value |-> NaN]
    ELSE IF /\ IsMantissa(Before(b, FirstOf(b, {101, 69})))
            /\ IsExponent(SubSeq(b, FirstOf(b, {101, 69}), Len(b)))
    THEN [raised |-> "none",
          value |-> Literal(sgn, Before(b, FirstOf(b, {101, 69})),
                            SubSeq(b, FirstOf(b, {101, 69}), Len(b)))]
    ELSE [raised |-> "ValueError", value |-> None]

\* float(text): the ASCII white space around the literal of the ASCII form is
\* dropped; the literal is [sign] (inf | infinity | nan | mantissa [exponent]);
\* any other text raises ValueError
ParseAscii(s) == ParseUnsigned(SignOf(s), Unsigned(s))
ParseFloat(cs) ==
    ParseAscii(RStripOf(LStripOf(TransformDecimalAndSpaceToASCII(cs), AsciiWhitespace),
                        AsciiWhitespace))

\* faulty variant: a failed connection exits like every other failure
ConnectFailCodeOne == 0 + 1
\* line 75: sys.exit(0) when the connection fails
ConnectFailCode == 0
\* lines 91, 94: sys.exit(1) when the checkpoint cannot be read
CheckpointFailCode == 1
\* lines 55, 101: sys.exit(1) when an RPC fails
RpcFailCode == 1
\* the exit status of an interpreter that ends on an uncaught exception
UncaughtCode == 1

\* lines 81-91: the outcome of float(fp.read().strip())
ParsedCheckpoint(parsed) ==
    IF parsed.raised # "none"
    THEN [exit |-> TRUE, code |-> CheckpointFailCode, value |-> None,
          syslog |-> <<"could not extract timestamp from Flux job log file">>]
    ELSE [exit |-> FALSE, code |-> 0, syslog |-> <<>>, value |-> parsed.value]

\* faulty variant: a text that is no number is taken as no checkpoint at all
ReadCheckpointLenient(file) ==
    IF ~file.exists \/ (file.readable /\ ParseFloat(Strip(file.text)).raised # "none")
    THEN [exit |-> FALSE, code |-> 0, syslog |-> <<>>, value |-> PyFloat(0, 1)]
    ELSE IF ~file.readable
    THEN [exit |-> TRUE, code |-> CheckpointFailCode, value |-> None,
          syslog |-> <<"an unexpected error occurred">>]
    ELSE ParsedCheckpoint(ParseFloat(Strip(file.text)))
\* lines 79-94: the timestamp read from FLUX_TIMESTAMP_FILE, or the exit
ReadCheckpoint(file) ==
    IF ~file.exists
    THEN [exit |-> FALSE, code |-> 0, syslog |-> <<>>, value |-> PyFloat(0, 1)]
    ELSE IF ~file.readable
    THEN [exit |-> TRUE, code |-> CheckpointFailCode, value |-> None,
          syslog |-> <<"an unexpected error occurred">>]
    ELSE ParsedCheckpoint(ParseFloat(Strip(file.text)))

(***************************** fetch_new_jobs ******************************)
\* lines 77-94: the timestamp is the argument, or the one read from the file
ResolveTimestamp(last_timestamp, file) ==
    IF ~IsNone(last_timestamp)
    THEN [exit |-> FALSE, code |-> 0, syslog |-> <<>>, value |-> last_timestamp]
    ELSE ReadCheckpoint(file)

\* lines 103-108: the entries the reply of config.get adds to queue_timelimits
QueueTimelimits(qtl, qlist) ==
    [q \in DOMAIN Get(qlist, "queues", EmptyDict).v |->
        Get(Get(Get(Get(qlist, "queues", EmptyDict).v[q].v, "policy", EmptyDict).v,
                "limits", EmptyDict).v, "duration", PyStr("UNKNOWN"))] @@ qtl

\* line 111: the jobs job_list_inactive(since=...) lists, those that became
\* inactive after the timestamp
ListInactive(entries, since) ==
    SelectSeq([i \in 1..Len(entries) |-> entries[i].job],
              LAMBDA job : NumGreater(job["t_inactive"], since))

\* the KVS entry of a job of the instance
KvsOf(entries, id) == entries[CHOOSE i \in 1..Len(entries) : entries[i].job["id"] = id].kvs

\* lines 124-131: attributes.system of a jobspec
SystemAttributes(jobspec) ==
    Get(Get(jobspec.v, "attributes", EmptyDict).v, "system", EmptyDict).v

\* lines 121-131: the fields taken from the jobspec
EnrichJobspec(job, jobspec) ==
    Put(Put(Put(Put(Put(job, "jobspec", jobspec),
                    "duration", Get(SystemAttributes(jobspec), "duration", EmptyDict)),
                "bank", Get(SystemAttributes(jobspec), "bank", None)),
            "queue", Get(SystemAttributes(jobspec), "queue", None)),
        "project", Get(SystemAttributes(jobspec), "project", None))

\* lines 119-138: the job with the fields of its KVS entry merged in
Enrich(job, job_data) ==
    PutIf(~IsNone(Get(job_data, "eventlog", None)),
          IF ~IsNone(Get(job_data, "jobspec", None))
          THEN EnrichJobspec(job, job_data["jobspec"]) ELSE job,
          "eventlog", job_data["eventlog"])

\* lines 116-118: job_kvs_lookup(..., decode=True) raises json.JSONDecodeError;
\* the call stands before the try block of line 120
LookupRaises(kvs) == kvs.kind = "decode_error"

\* lines 119-138 for a job whose lookup returned job_data, or None
EnrichWith(job, kvs) == IF kvs.kind = "data" THEN Enrich(job, kvs.data) ELSE job

ListedIds(listed) == {listed[i]["id"].v : i \in 1..Len(listed)}

(***************************** main ****************************************)
\* what a run knows of the run without --since that ended last before it began
NoPrev == [valid |-> FALSE, last_timestamp |-> None, emitted |-> {}]

AllOk == [connect_ok |-> TRUE, config_ok |-> TRUE, list_ok |-> TRUE]

\* the state of `run` before the first run
NoRun == [started |-> FALSE, since_arg |-> None, output_file |-> None, before |-> NoPrev,
          env |-> AllOk, resolved |-> FALSE, last_timestamp |-> None, exit_code |-> 0,
          traceback |-> "none", syslog |-> <<>>, stderr |-> <<>>, stdout |-> <<>>,
          calls |-> <<>>, listed |-> {}]

\* the locals of a run that has not begun
NoFrame == [since_arg |-> None, output_file |-> None, before |-> NoPrev,
            last_timestamp |-> None, jobs |-> <<>>, looked_up |-> 0]

\* the calls a run has made when it waits for, or has the reply of, `at`
CallsAt(at, looked_up) ==
    IF at = "connect" THEN <<"connect">>
    ELSE IF at = "config" THEN <<"connect", "config.get">>
    ELSE <<"connect", "config.get", "job-list.list-inactive">>
         \o [i \in 1..looked_up |-> "job-info.lookup"]

\* what `run` records of a run that ends at the call `at` with the locals fr
RunAt(fr, at, looked_up) ==
    [NoRun EXCEPT !.started = TRUE, !.since_arg = fr.since_arg,
                  !.output_file = fr.output_file, !.before = fr.before,
                  !.resolved = (at # "connect"), !.last_timestamp = fr.last_timestamp,
                  !.calls = CallsAt(at, looked_up), !.listed = ListedIds(fr.jobs)]

\* faulty variant: lines 320-333 enabled, the file is written at the end of the run
CheckpointAfterWritten(file, job_records) ==
    [exists |-> TRUE, readable |-> TRUE, text |-> <<57>>]
\* lines 314-333: the checkpoint file after the records are printed; the code
\* that writes it is commented out
CheckpointAfter(file, job_records) == file

\* the ids of the jobs a run printed
Emitted(r) == {r.stdout[i].v["job"].v["id"].v : i \in 1..Len(r.stdout)}
\* a run that was started without --since and resolved its timestamp
FromCheckpoint(r) == r.started /\ IsNone(r.since_arg) /\ r.resolved

(***************************** inputs **************************************)
Without(d, k) == [x \in (DOMAIN d) \ {k} |-> d[x]]
Ticks == {Tick(k) : k \in 0..MaxTick}

\* the attributes job-list returns for an inactive job
RawJob ==
    [id |-> PyInt(1), userid |-> PyInt(1000), name |-> PyStr("sleep"),
     priority |-> PyInt(16), state |-> PyInt(64), result |-> PyInt(1),
     t_submit |-> Tick(0), t_depend |-> Tick(1), t_run |-> Tick(2),
     t_cleanup |-> Tick(3), t_inactive |-> Tick(3), expiration |-> Tick(80),
     nnodes |-> PyInt(2), ntasks |-> PyInt(4), nodelist |-> PyStr("node[1-2]"),
     cwd |-> PyStr("/home/alice"), urgency |-> PyInt(16), success |-> PyBool(TRUE),
     waitstatus |-> PyInt(0), exception_occurred |-> PyBool(FALSE)]

\* the jobspec of a job submitted with a duration, a bank, a queue and a project
FullJobspec ==
    PyDict([attributes |-> PyDict([system |-> PyDict(
        [duration |-> PyInt(3600), bank |-> PyStr("A"), queue |-> PyStr("batch"),
         project |-> PyStr("P")])])])
\* a jobspec without system attributes
BareJobspec == PyDict([attributes |-> EmptyDict])

\* a job as fetch_new_jobs returns it, every attribute present
FullJob == Enrich(RawJob, [jobspec |-> FullJobspec, eventlog |-> PyStr("submit")])

ResultValues == {None, PyInt(0), PyInt(1), PyInt(2), PyInt(3), PyInt(4), PyInt(8)}
UserValues == {None, PyInt(1000), PyInt(1001), PyInt(4242), PyInt(7)}

\* the jobs the mapping is applied to: FullJob with one group of attributes varied
JobUniverse ==
    {Put(FullJob, "result", r) : r \in ResultValues}
    \cup {Put(FullJob, "userid", u) : u \in UserValues}
    \cup {Put(FullJob, "t_submit", s) : s \in Ticks}
    \cup {Put(Put(FullJob, "t_depend", d), "t_run", r) : d, r \in Ticks \cup {None}}
    \cup {Put(Put(FullJob, "t_run", r), "t_inactive", i) : r, i \in Ticks \cup {None}}
    \cup {Without(FullJob, k) : k \in DOMAIN FullJob}
    \cup {Put(FullJob, "queue", PyStr("debug")), [id |-> PyInt(1)], [k \in {} |-> None],
          Put(Put(FullJob, "t_run", Tick(0)), "t_inactive", Tick(66)),
          Enrich(RawJob, [jobspec |-> BareJobspec])}
    \cup {Put(Put(Put(FullJob, "exception_occurred", PyBool(o)), "exception_type", t),
              "exception_note", n) :
            o \in BOOLEAN, t \in {None, PyStr("cancel")}, n \in {None, PyStr("by user")}}

\* the jobs that fill the rest of a list: only the submit time varies
SubmitUniverse == {Put(FullJob, "t_submit", s) : s \in Ticks} \cup {Without(FullJob, "t_submit")}

RECURSIVE ListsOver(_, _)
\* the lists of at most n elements of S
ListsOver(S, n) ==
    IF n = 0 THEN {<<>>}
    ELSE ListsOver(S, n - 1) \cup {Append(l, x) : l \in {m \in ListsOver(S, n - 1) : Len(m) = n - 1}, x \in S}

\* job ids follow the position in the list
Numbered(l) == [i \in 1..Len(l) |-> IF "id" \in DOMAIN l[i] THEN Put(l[i], "id", PyInt(i)) ELSE l[i]]

MapInputs ==
    {<<>>} \cup {Numbered(Append(l, j)) : l \in ListsOver(SubmitUniverse, MaxJobs - 1), j \in JobUniverse}

QueueTables == {[q \in {} |-> None], [batch |-> PyStr("8h")]}

NotCalled == [raised |-> "not called", value |-> <<>>]

\* what job_kvs_lookup finds for a job: nothing (it returns None), an entry
\* that does not decode, or the jobspec and the eventlog
KvsUniverse ==
    {[kind |-> "none", data |-> [k \in {} |-> None]],
     [kind |-> "decode_error", data |-> [k \in {} |-> None]],
     [kind |-> "data", data |-> [jobspec |-> FullJobspec, eventlog |-> PyStr("submit")]]}

\* the jobs that become inactive in the instance; the i-th does so at i seconds
InstanceJobs == {[job |-> RawJob, kvs |-> k] : k \in KvsUniverse}
InstanceEntry(e, i) ==
    [e EXCEPT !.job = Put(Put(e.job, "id", PyInt(i)), "t_inactive", Tick(8 * i))]

\* the text "not-a-number"
NotANumber == <<110, 111, 116, 45, 97, 45, 110, 117, 109, 98, 101, 114>>

\* FLUX_TIMESTAMP_FILE: missing, unreadable, or holding one of the texts
\* "2\r\n", " 1.5\n", "not-a-number"
CheckpointFiles ==
    {[exists |-> FALSE, readable |-> FALSE, text |-> <<>>],
     [exists |-> TRUE, readable |-> FALSE, text |-> <<>>]}
    \cup {[exists |-> TRUE, readable |-> TRUE, text |-> t] :
            t \in {<<50, 13, 10>>, <<32, 49, 46, 53, 10>>, NotANumber}}

\* the command lines: --since TIMESTAMP (type=int) or None, --output-file
\* OUTPUT_FILE (type=str) or None
Args ==
    {[since |-> None, output_file |-> None],
     [since |-> PyInt(1), output_file |-> None],
     [since |-> PyInt(1), output_file |-> PyStr("jobs.ndjson")]}

\* the replies of config.get
QueueConfigs ==
    {[k \in {} |-> None],
     [queues |-> PyDict(
         [batch |-> PyDict([policy |-> PyDict([limits |-> PyDict([duration |-> PyStr("8h")])])]),
          debug |-> EmptyDict])]}

\* the runs of the script: two, one after the other or at once
Procs == {1, 2}

(***************************** specifications ******************************)
\* SpecMap: create_job_dicts applied to every list of MapInputs, in the run 1
InitMap ==
    /\ jobs \in MapInputs
    /\ queue_timelimits \in {[p \in Procs |-> t] : t \in QueueTables}
    /\ ret = NotCalled
    /\ inactive = <<>>
    /\ checkpoint = [exists |-> FALSE, readable |-> FALSE, text |-> <<>>]
    /\ run = [p \in Procs |-> NoRun]
    /\ prev = NoPrev
    /\ pc = [p \in Procs |-> "idle"]
    /\ frame = [p \in Procs |-> NoFrame]

CallCreateJobDicts ==
    /\ ret = NotCalled
    /\ ret' = create_job_dicts(jobs, queue_timelimits[1])
    /\ UNCHANGED <<inactive, checkpoint, run, prev, queue_timelimits, jobs, pc, frame>>

NextMap == CallCreateJobDicts
SpecMap == InitMap /\ [][NextMap]_vars

\* Spec: two runs of main() against an instance whose jobs become
\* inactive.  A run is a process of its own, with its own queue_timelimits; it
\* takes one step for each call in which it waits for the instance or reads
\* the checkpoint file, and the instance and the other runs take their steps
\* in between.  jobs and ret belong to SpecMap.
Init ==
    /\ inactive = <<>>
    /\ checkpoint \in CheckpointFiles
    /\ run = [p \in Procs |-> NoRun]
    /\ prev = NoPrev
    /\ queue_timelimits = [p \in Procs |-> [q \in {} |-> None]]
    /\ jobs = <<>>
    /\ ret = NotCalled
    /\ pc = [p \in Procs |-> "idle"]
    /\ frame = [p \in Procs |-> NoFrame]

JobBecomesInactive ==
    /\ Len(inactive) < MaxInactive
    /\ \E e \in InstanceJobs :
         inactive' = Append(inactive, InstanceEntry(e, Len(inactive) + 1))
    /\ UNCHANGED <<checkpoint, run, prev, queue_timelimits, jobs, ret, pc, frame>>

\* the run p ends: sys.exit, an uncaught exception, or the end of main(); the
\* process and its module-level dict are gone
EndRun(p, r) ==
    /\ run' = [run EXCEPT ![p] = r]
    /\ prev' = IF FromCheckpoint(r)
               THEN [valid |-> TRUE, last_timestamp |-> r.last_timestamp,
                     emitted |-> Emitted(r)]
               ELSE prev
    /\ pc' = [pc EXCEPT ![p] = "done"]
    /\ frame' = [frame EXCEPT ![p] = NoFrame]
    /\ queue_timelimits' = [queue_timelimits EXCEPT ![p] = [q \in {} |-> None]]

\* the run p goes on to wait in the call `at`, with the locals fr
GoOn(p, at, fr) ==
    /\ pc' = [pc EXCEPT ![p] = at]
    /\ frame' = [frame EXCEPT ![p] = fr]
    /\ UNCHANGED <<run, prev>>

\* lines 103-108: queue_timelimits of the run p is filled from the reply
FillQueueTimelimits(p, qlist) ==
    queue_timelimits' = [queue_timelimits EXCEPT ![p] = QueueTimelimits(@, qlist)]

\* lines 283-309, 66-75: the script is started and flux.Flux() returns or raises;
\* the runs are numbered in the order in which they start
Connect(p) ==
    /\ pc[p] = "idle"
    /\ \A q \in Procs : q < p => pc[q] # "idle"
    /\ \E args \in Args, connected \in BOOLEAN :
         \E fr \in {[NoFrame EXCEPT !.since_arg = args.since,
                                    !.output_file = args.output_file,
                                    !.last_timestamp = args.since,
                                    !.before = prev]} :
           IF connected
           THEN GoOn(p, "timestamp", fr) /\ UNCHANGED queue_timelimits
           ELSE EndRun(p, [RunAt(fr, "connect", 0) EXCEPT
                    !.resolved = FALSE, !.env.connect_ok = FALSE,
                    !.exit_code = ConnectFailCode,
                    !.syslog = <<"Could not connect to Flux instance; Flux may be down",
                                 "exception message">>])
    /\ UNCHANGED <<inactive, checkpoint, jobs, ret>>

\* lines 77-97: the timestamp is resolved, from the file when --since was not
\* given, and config.get is sent
ReadTimestamp(p) ==
    /\ pc[p] = "timestamp"
    /\ \E ts \in {ResolveTimestamp(frame[p].last_timestamp, checkpoint)} :
         IF ts.exit
         THEN EndRun(p, [RunAt(frame[p], "connect", 0) EXCEPT
                  !.resolved = FALSE, !.exit_code = ts.code, !.syslog = ts.syslog])
         ELSE /\ GoOn(p, "config", [frame[p] EXCEPT !.last_timestamp = ts.value])
              /\ UNCHANGED queue_timelimits
    /\ UNCHANGED <<inactive, checkpoint, jobs, ret>>

\* lines 98-111: config.get returns or raises EnvironmentError; the queue
\* table is filled and the listing is sent
ConfigGet(p) ==
    /\ pc[p] = "config"
    /\ \/ \E qlist \in QueueConfigs :
            GoOn(p, "list", frame[p]) /\ FillQueueTimelimits(p, qlist)
       \/ EndRun(p, [RunAt(frame[p], "config", 0) EXCEPT
              !.env.config_ok = FALSE, !.exit_code = RpcFailCode])
    /\ UNCHANGED <<inactive, checkpoint, jobs, ret>>

\* lines 112, 49-55: get_jobs returns the jobs the instance lists at this
\* moment, or raises EnvironmentError
get_jobs(p) ==
    /\ pc[p] = "list"
    /\ \/ /\ GoOn(p, "lookup", [frame[p] EXCEPT
                 !.jobs = ListInactive(inactive, frame[p].last_timestamp)])
          /\ UNCHANGED queue_timelimits
       \/ EndRun(p, [RunAt(frame[p], "list", 0) EXCEPT
              !.env.list_ok = FALSE, !.exit_code = RpcFailCode,
              !.stderr = <<"rpc: error">>])
    /\ UNCHANGED <<inactive, checkpoint, jobs, ret>>

\* lines 114-138: one turn of the loop; job_kvs_lookup returns the entry of
\* the next listed job or raises json.JSONDecodeError, which nothing catches
KvsLookup(p) ==
    /\ pc[p] = "lookup"
    /\ frame[p].looked_up < Len(frame[p].jobs)
    /\ \E n \in {frame[p].looked_up + 1} :
         \E kvs \in {KvsOf(inactive, frame[p].jobs[n]["id"])} :
           IF LookupRaises(kvs)
           THEN EndRun(p, [RunAt(frame[p], "lookup", n) EXCEPT
                    !.exit_code = UncaughtCode, !.traceback = "JSONDecodeError"])
           ELSE /\ GoOn(p, "lookup", [frame[p] EXCEPT
                       !.jobs[n] = EnrichWith(@, kvs), !.looked_up = n])
                /\ UNCHANGED queue_timelimits
    /\ UNCHANGED <<inactive, checkpoint, jobs, ret>>

\* lines 140, 309-333: the loop is over; the records are made and printed,
\* or an exception of create_job_dicts ends the run
Emit(p) ==
    /\ pc[p] = "lookup"
    /\ frame[p].looked_up = Len(frame[p].jobs)
    /\ \E c \in {create_job_dicts(frame[p].jobs, queue_timelimits[p])} :
            IF c.raised # "none"
            THEN /\ EndRun(p, [RunAt(frame[p], "lookup", frame[p].looked_up) EXCEPT
                         !.exit_code = UncaughtCode, !.traceback = c.raised])
                 /\ UNCHANGED checkpoint
            ELSE /\ EndRun(p, [RunAt(frame[p], "lookup", frame[p].looked_up) EXCEPT
                         !.stdout = c.value])
                 /\ checkpoint' = CheckpointAfter(checkpoint, c.value)
    /\ UNCHANGED <<inactive, jobs, ret>>

Next ==
    \/ JobBecomesInactive
    \/ \E p \in Procs :
         Connect(p) \/ ReadTimestamp(p) \/ ConfigGet(p) \/ get_jobs(p)
         \/ KvsLookup(p) \/ Emit(p)
Spec == Init /\ [][Next]_vars

(***************************** properties of create_job_dicts **************)
\* create_job_dicts has been called on `jobs`
Called == ret.raised # "not called"
Returned == ret.raised = "none"
Records == {ret.value[i] : i \in 1..Len(ret.value)}
\* the record made from jobs[i]: ids are distinct within a list
RecordFor(i) == CHOOSE r \in Records : r.v["job"].v["id"] = JobGet(jobs[i], "id")
HasRecord(i) == \E r \in Records : r.v["job"].v["id"] = JobGet(jobs[i], "id")
Present(job, k) == ~IsNone(JobGet(job, k))

\* C1: a present result code 1, 2, 4 or 8 gives event.outcome COMPLETED,
\* FAILED, CANCELLED or TIMEOUT; any other present code makes the call raise
\* KeyError, and no record is returned.
C1_OutcomeMapping ==
    Called =>
      \A i \in 1..Len(jobs) :
        LET code == JobGet(jobs[i], "result")
        IN  Present(jobs[i], "result") =>
              IF code.v \in {1, 2, 4, 8}
              THEN Returned =>
                     /\ HasRecord(i)
                     /\ "outcome" \in DOMAIN RecordFor(i).v["event"].v
                     /\ RecordFor(i).v["event"].v["outcome"] =
                          PyStr(CASE code.v = 1 -> "COMPLETED" [] code.v = 2 -> "FAILED"
                                  [] code.v = 4 -> "CANCELLED" [] code.v = 8 -> "TIMEOUT")
              ELSE ret.raised = "KeyError" /\ ret.value = <<>>

\* C1 witness: a list of several jobs was mapped and a job of result code 4
\* got the outcome CANCELLED
C1_Witness ==
    /\ Returned /\ Len(jobs) >= 2
    /\ \E i \in 1..Len(jobs) :
         /\ JobGet(jobs[i], "result") = PyInt(4)
         /\ RecordFor(i).v["event"].v["outcome"] = PyStr("CANCELLED")

\* the submit-time epoch of a record in eighths of a second, zero when it has none
EpochOrZero(rec) ==
    IF "submittime_epoch" \in DOMAIN rec.v["job"].v
    THEN rec.v["job"].v["submittime_epoch"].num ELSE 0

\* C2: for every list of jobs that map without an outcome error, with or
\* without submit times, the call returns one record per job, ascending by
\* submit-time epoch, the records without a submit time first as if it were 0.
C2_SortedMissingFirst ==
    (Called /\ ret.raised # "KeyError") =>
      /\ Returned
      /\ Len(ret.value) = Len(jobs)
      /\ \A a, b \in 1..Len(ret.value) :
           a < b => EpochOrZero(ret.value[a]) <= EpochOrZero(ret.value[b])

\* the jobs of the list that have both t_depend and t_run
BothDependRun(i) == Present(jobs[i], "t_depend") /\ Present(jobs[i], "t_run")

\* C3 as stated: the eligible time of a job with t_depend and t_run is t_run,
\* so job.eligibletime is the run start and job.queue_time is 0.
C3_EligibleIsRunStart ==
    Returned =>
      \A i \in 1..Len(jobs) :
        BothDependRun(i) =>
          /\ RecordFor(i).v["job"].v["eligibletime"] = IsoFormat(jobs[i]["t_run"])
          /\ RecordFor(i).v["job"].v["queue_time"].num = 0

\* C3 amended: the eligible time of a job with t_depend and t_run is t_depend:
\* job.eligibletime is the text of t_depend and job.queue_time is
\* t_run - t_depend rounded to one decimal.
C3_EligibleIsDepend ==
    Returned =>
      \A i \in 1..Len(jobs) :
        BothDependRun(i) =>
          LET j == RecordFor(i).v["job"].v
              d == jobs[i]["t_run"].num - jobs[i]["t_depend"].num
              m == j["queue_time"].num
          IN  /\ "eligibletime" \in DOMAIN j /\ "queue_time" \in DOMAIN j
              /\ j["eligibletime"] = IsoFormat(jobs[i]["t_depend"])
              /\ j["queue_time"].den = 10
              /\ 2 * Abs(10 * d - 8 * m) <= 8
              /\ (2 * Abs(10 * d - 8 * m) = 8 => m % 2 = 0)

\* C3 witness: a job that ran after it became eligible was mapped, and its
\* queue time is not zero
C3_Witness ==
    /\ Returned
    /\ \E i \in 1..Len(jobs) :
         /\ BothDependRun(i)
         /\ jobs[i]["t_run"].num > jobs[i]["t_depend"].num
         /\ RecordFor(i).v["job"].v["queue_time"].num > 0

\* the directly copied fields: <<group, subgroup or "", key, raw attribute>>
CopiedPaths ==
    { <<"job", "", "name", "name">>, <<"job", "", "priority", "priority">>,
      <<"job", "", "state", "state">>, <<"job", "", "bank", "bank">>,
      <<"job", "", "queue", "queue">>, <<"job", "", "project", "project">>,
      <<"job", "", "jobspec", "jobspec">>, <<"job", "", "eventlog", "eventlog">>,
      <<"job", "", "requested_duration", "duration">>,
      <<"job", "node", "list", "nodelist">>, <<"job", "node", "count", "nnodes">>,
      <<"job", "task", "count", "ntasks">>, <<"job", "", "cwd", "cwd">>,
      <<"job", "", "urgency", "urgency">>, <<"job", "", "success", "success">>,
      <<"job", "", "exit_code", "waitstatus">>, <<"job", "", "t_submit", "t_submit">>,
      <<"job", "", "t_run", "t_run">>, <<"job", "", "t_inactive", "t_inactive">>,
      <<"job", "", "t_cleanup", "t_cleanup">>, <<"user", "", "id", "userid">> }
\* the dict of a record that holds the key of a path
Container(rec, p) == IF p[2] = "" THEN rec.v[p[1]].v ELSE rec.v[p[1]].v[p[2]].v

\* C7 as stated: a copied key holds the raw value when the job has the
\* attribute, and is absent from the record when the job lacks it.
C7_CopiedOrAbsent ==
    Returned =>
      \A i \in 1..Len(jobs) : \A p \in CopiedPaths :
        IF p[4] \in DOMAIN jobs[i]
        THEN p[3] \in DOMAIN Container(RecordFor(i), p)
             /\ Container(RecordFor(i), p)[p[3]] = jobs[i][p[4]]
        ELSE p[3] \notin DOMAIN Container(RecordFor(i), p)

\* C7 amended: a copied key is always in the record; it holds the raw value
\* when the job has the attribute and None when the job lacks it.
C7_CopiedOrNone ==
    Returned =>
      \A i \in 1..Len(jobs) : \A p \in CopiedPaths :
        /\ p[3] \in DOMAIN Container(RecordFor(i), p)
        /\ Container(RecordFor(i), p)[p[3]] =
             (IF p[4] \in DOMAIN jobs[i] THEN jobs[i][p[4]] ELSE None)

\* C7 witness: a job without a name and a job with an exit status were mapped;
\* the one has job.name None, the other its exit status
C7_Witness ==
    /\ Returned
    /\ \E i \in 1..Len(jobs) :
         "name" \notin DOMAIN jobs[i] /\ RecordFor(i).v["job"].v["name"] = None
    /\ \E i \in 1..Len(jobs) :
         "waitstatus" \in DOMAIN jobs[i]
         /\ RecordFor(i).v["job"].v["exit_code"] = jobs[i]["waitstatus"]

\* C8: with t_run and t_inactive present, event.duration_seconds is
\* t_inactive - t_run rounded to one decimal (ties to even) and event.duration
\* is the product of that float with 10^9, which is the double nearest to the
\* exact product and at most one unit in the last place from the number of
\* tenths times 10^8; with either missing, neither key is in the record.
C8_Duration ==
    Returned =>
      \A i \in 1..Len(jobs) :
        LET e == RecordFor(i).v["event"].v
        IN  IF Present(jobs[i], "t_run") /\ Present(jobs[i], "t_inactive")
            THEN LET d == jobs[i]["t_inactive"].num - jobs[i]["t_run"].num
                     m == e["duration_seconds"].num
                 IN  /\ "duration_seconds" \in DOMAIN e /\ "duration" \in DOMAIN e
                     /\ e["duration_seconds"].den = 10 /\ e["duration_seconds"].exp10 = 0
                     /\ 2 * Abs(10 * d - 8 * m) <= 8
                     /\ (2 * Abs(10 * d - 8 * m) = 8 => m % 2 = 0)
                     /\ e["duration"] = TimesNanos(e["duration_seconds"])
                     /\ e["duration"].num = m /\ e["duration"].exp10 = 9
                     /\ e["duration"].ulps \in {0 - 1, 0, 1}
            ELSE "duration_seconds" \notin DOMAIN e /\ "duration" \notin DOMAIN e

\* C8 witness: a job that ran for 66/8 s was mapped; 8.25 s became 8.2 s, and
\* the product 8.2 * 10^9 is one unit in the last place below 8200000000
C8_Witness ==
    /\ Returned
    /\ \E i \in 1..Len(jobs) :
         /\ Present(jobs[i], "t_run") /\ Present(jobs[i], "t_inactive")
         /\ jobs[i]["t_inactive"].num - jobs[i]["t_run"].num = 66
         /\ RecordFor(i).v["event"].v["duration_seconds"].num = 82
         /\ RecordFor(i).v["event"].v["duration"].ulps = 0 - 1

\* the uids the identity database does not know, with their text
UnknownUids == {<<4242, "4242">>, <<7, "7">>}

\* C9: a job whose userid the identity database does not know still gets its
\* record, with user.name the text of the uid and group.id and group.name the
\* empty string; the call raises only for an unmapped result code (KeyError)
\* or for a list that mixes jobs with and without a submit time (TypeError).
C9_UnknownUser ==
    Called =>
      \A i \in 1..Len(jobs) : \A u \in UnknownUids :
        JobGet(jobs[i], "userid") = PyInt(u[1]) =>
          /\ ret.raised = "KeyError" =>
               \E k \in 1..Len(jobs) : Present(jobs[k], "result")
                                       /\ jobs[k]["result"].v \notin {1, 2, 4, 8}
          /\ ret.raised = "TypeError" =>
               \E k, l \in 1..Len(jobs) : Present(jobs[k], "t_submit") /\ ~Present(jobs[l], "t_submit")
          /\ Returned =>
               /\ HasRecord(i)
               /\ RecordFor(i).v["user"].v = [id |-> PyInt(u[1]), name |-> PyStr(u[2])]
               /\ RecordFor(i).v["group"].v = [id |-> PyStr(""), name |-> PyStr("")]

\* C9 witness: the job of the unknown uid 4242 was mapped to a record named "4242"
C9_Witness ==
    /\ Returned
    /\ \E i \in 1..Len(jobs) :
         /\ JobGet(jobs[i], "userid") = PyInt(4242)
         /\ RecordFor(i).v["user"].v["name"] = PyStr("4242")
         /\ RecordFor(i).v["group"].v["name"] = PyStr("")

(***************************** properties of main **************************)
\* the checkpoint file exists and holds a text that is no float
BadCheckpoint == checkpoint.exists /\ checkpoint.readable /\ checkpoint.text = NotANumber
CallsMade(r) == {r.calls[i] : i \in 1..Len(r.calls)}

\* C4 as stated: a run without --since on a checkpoint that holds no float
\* logs an error, exits non-zero and emits no record, whatever the state of
\* the workload manager.
C4_BadCheckpointAborts ==
    \A p \in Procs :
      (run[p].started /\ IsNone(run[p].since_arg) /\ BadCheckpoint) =>
        /\ run[p].syslog # <<>>
        /\ run[p].exit_code # 0
        /\ run[p].stdout = <<>>

\* C4 amended: such a run logs an error and emits no record; it exits non-zero
\* when the connection to the workload manager succeeded, and with code 0
\* when the connection failed, the connection being made before the file is read.
C4_BadCheckpointAbortsOnceConnected ==
    \A p \in Procs :
      (run[p].started /\ IsNone(run[p].since_arg) /\ BadCheckpoint) =>
        /\ run[p].syslog # <<>>
        /\ run[p].stdout = <<>>
        /\ CallsMade(run[p]) = {"connect"}
        /\ run[p].env.connect_ok =>
             /\ run[p].exit_code # 0
             /\ run[p].syslog = <<"could not extract timestamp from Flux job log file">>
        /\ ~run[p].env.connect_ok => run[p].exit_code = 0

\* C4 witness: the instance holds inactive jobs, the connection succeeded, and
\* a run ended with code 1 on the bad checkpoint
C4_Witness ==
    \E p \in Procs :
      /\ run[p].started /\ IsNone(run[p].since_arg) /\ BadCheckpoint
      /\ inactive # <<>> /\ run[p].env.connect_ok /\ run[p].exit_code = 1

\* C5: a run whose connection fails logs the failure, exits with code 0, makes
\* no further call and emits no record; a run whose config.get or job listing
\* fails exits with a non-zero code.
C5_ConnectFailureSoft ==
    \A p \in Procs :
      run[p].started =>
        /\ ~run[p].env.connect_ok =>
             /\ run[p].syslog # <<>>
             /\ run[p].exit_code = 0
             /\ run[p].calls = <<"connect">>
             /\ run[p].stdout = <<>>
        /\ (~run[p].env.config_ok /\ "config.get" \in CallsMade(run[p])) =>
             run[p].exit_code # 0 /\ run[p].stdout = <<>>
        /\ (~run[p].env.list_ok /\ "job-list.list-inactive" \in CallsMade(run[p])) =>
             run[p].exit_code # 0 /\ run[p].stdout = <<>>

\* C5 witness: the instance holds inactive jobs and a run could not connect;
\* another run could, and its listing failed
C5_Witness ==
    /\ inactive # <<>>
    /\ \E p \in Procs :
         run[p].started /\ ~run[p].env.connect_ok
         /\ run[p].exit_code = 0 /\ run[p].calls = <<"connect">>
    /\ \E p \in Procs :
         run[p].started /\ ~run[p].env.list_ok /\ run[p].exit_code = 1

\* the listed jobs of a run whose specification lookup raises a decode error
ListedUndecodable(r) == {i \in r.listed : inactive[i].kvs.kind = "decode_error"}
AllCallsOk(r) == r.env.connect_ok /\ r.env.config_ok /\ r.env.list_ok

\* C6: a run in which the specification lookup of a fetched job raises a decode
\* error does not fail: every fetched job yields one record, the record of the
\* undecodable job has no bank, queue, project or requested duration, and the
\* other jobs are enriched as far as their KVS entry goes.
C6_DecodeErrorSkipped ==
    \A p \in Procs :
      (run[p].started /\ run[p].resolved /\ AllCallsOk(run[p])
         /\ ListedUndecodable(run[p]) # {}) =>
        /\ run[p].traceback = "none"
        /\ run[p].exit_code = 0
        /\ Emitted(run[p]) = run[p].listed
        /\ \A k \in 1..Len(run[p].stdout) :
             LET j == run[p].stdout[k].v["job"].v
             IN  IF j["id"].v \in ListedUndecodable(run[p])
                 THEN \A a \in {"bank", "queue", "project", "requested_duration"} :
                        a \notin DOMAIN j \/ IsNone(j[a])
                 ELSE inactive[j["id"].v].kvs.kind = "data" => ~IsNone(j["jobspec"])

\* C10, its part on states: a run without --since resolves 0.0 while the file
\* is missing; it resolves the timestamp that every other run without --since
\* resolved, and, when its calls succeed, lists again every job printed by the
\* run without --since that ended last before it began.
C10_State ==
    \A p \in Procs :
      FromCheckpoint(run[p]) =>
        /\ ~checkpoint.exists => run[p].last_timestamp = PyFloat(0, 1)
        /\ \A q \in Procs :
             FromCheckpoint(run[q]) => run[q].last_timestamp = run[p].last_timestamp
        /\ run[p].before.valid =>
             /\ run[p].last_timestamp = run[p].before.last_timestamp
             /\ (AllCallsOk(run[p]) => run[p].before.emitted \subseteq run[p].listed)
\* C10: every step leaves the checkpoint file as it was, and C10_State holds
\* in every state
C10_CheckpointNeverWritten == [][checkpoint' = checkpoint]_vars /\ []C10_State

\* C10 witness: two runs without --since on a missing checkpoint, one after
\* the other; the second printed again the jobs the first had printed
C10_Witness ==
    \E p \in Procs :
      /\ ~checkpoint.exists
      /\ run[p].before.valid /\ run[p].before.emitted # {}
      /\ FromCheckpoint(run[p]) /\ run[p].exit_code = 0
      /\ run[p].before.emitted \subseteq Emitted(run[p])
      /\ run[p].last_timestamp = PyFloat(0, 1)

====
